---- MODULE Spec2Model ----
(***************************************************************************)
(* Model of hooks/useTVDevice (src/unnamed/part_000): TV device detection, *)
(* TV scale metrics and the D-pad remote event handler registration.       *)
(*                                                                         *)
(* JavaScript numbers are IEEE-754 doubles.  The two places where the code *)
(* divides (width / height, width / baseWidth) and multiplies              *)
(* (200 * scale, ...) are modelled with correctly rounded 53-bit           *)
(* arithmetic on bit sequences, so that comparisons against 1.7 / 2.4 and  *)
(* Math.round see the value the program sees.                              *)
(***************************************************************************)
EXTENDS Integers, Sequences, FiniteSets, TLC

VARIABLES
    PlatformIsTV,       \* Platform.isTV
    PlatformOS,         \* Platform.OS
    window,             \* Dimensions.get('window'): [width, height]
    forceTVMode,        \* settings.forceTVMode: "true" | "false" | "undefined"
    call,               \* last direct call of an exported/pure function and its result
    mounted,            \* the component that calls useTVDevice() is mounted
    memoForce,          \* dependency value of the isTVDevice memo (settings.forceTVMode)
    isTVDevice,         \* memoized isTVDevice
    tvDimensions,       \* memoized tvDimensions
    tvEventHandlerRef,  \* tvEventHandlerRef.current: {id} of a TVEventHandler, {} for null
    sites,              \* the useRemoteHandler(...) call sites of the component
    rendered,           \* per call site: the handler passed in the latest render
    effect,             \* per call site: the effect last run (its deps, whether it returned a cleanup)
    pending,            \* a render was committed and its passive effects are not flushed yet
    subs,               \* enabled TVEventHandler instances of the host: [id, handler]
    lastHw,             \* the last notification the host emitted
    invoked,            \* handler invocations caused by the last notification
    last,               \* name of the last step taken
    prev                \* per call site: {handler} of the registration last torn down, {} if none

vars == <<PlatformIsTV, PlatformOS, window, forceTVMode, call, mounted, memoForce,
          isTVDevice, tvDimensions, tvEventHandlerRef, sites, rendered, effect,
          pending, subs, lastHw, invoked, last, prev>>

envVars == <<PlatformIsTV, PlatformOS, window, forceTVMode>>

hookVars == <<mounted, memoForce, isTVDevice, tvDimensions, tvEventHandlerRef, sites,
              rendered, effect, pending, subs, lastHw, invoked, prev>>

-----------------------------------------------------------------------------
(* Bounds *)

\* metrics are computed for every viewport width 0..MaxWidth
MaxWidth == 1930

\* the host's eventKeyAction codes range over 0..MaxKeyAction
MaxKeyAction == 2

\* distinct handler functions a caller may pass: 1..NumHandlers
NumHandlers == 2

-----------------------------------------------------------------------------
(* Program constants *)

TV_MIN_WIDTH == 1280

TV_MIN_HEIGHT == 720

baseWidth == 1920

\* significand width of a JavaScript number
MantissaBits == 53

TV_REMOTE_KEYS ==
    {"up", "down", "left", "right", "select", "playPause", "rewind",
     "fastForward", "back", "menu"}

-----------------------------------------------------------------------------
(* IEEE-754 double arithmetic on non-negative values.                      *)
(* A double is [bits, exp]: bits is the 53-bit significand, most           *)
(* significant bit first and equal to 1; its value is bits * 2^exp.        *)
(* Zero has the empty significand.                                         *)

Zero == [bits |-> <<>>, exp |-> 0]

\* the arithmetic works on limbs of LimbBits binary digits
LimbBits == 13

LimbBase == 2 ^ LimbBits

\* limbs computed per quotient / product; NumLimbs * LimbBits digits leave room
\* for the MantissaBits digits, the guard digit and up to 24 leading zeros
NumLimbs == 6

RECURSIVE NatBits(_)
\* binary digits of a natural, most significant first, no leading zero
NatBits(n) ==
    IF n = 0 THEN <<>> ELSE Append(NatBits(n \div 2), n % 2)

RECURSIVE BitsToNat(_)
BitsToNat(bs) ==
    IF bs = <<>> THEN 0
    ELSE 2 * BitsToNat(SubSeq(bs, 1, Len(bs) - 1)) + bs[Len(bs)]

\* a sequence given as a function, as the tuple of its elements
Tuple(f) == <<>> \o f

\* the digits of a sequence of limbs, most significant first
LimbsToBits(limbs) ==
    Tuple([i \in 1..(Len(limbs) * LimbBits) |->
        (limbs[((i - 1) \div LimbBits) + 1]
            \div (2 ^ (LimbBits - 1 - ((i - 1) % LimbBits)))) % 2])

\* bs without its leading zeros
StripZeros(bs) ==
    LET ones == {i \in 1..Len(bs) : bs[i] = 1}
    IN  IF ones = {} THEN <<>>
        ELSE SubSeq(bs, CHOOSE i \in ones : \A j \in ones : i <= j, Len(bs))

\* bs + 1 on a bit sequence; an all-ones sequence grows by one digit
Inc(bs) ==
    LET zeros == {i \in 1..Len(bs) : bs[i] = 0}
    IN  IF zeros = {} THEN <<1>> \o [i \in 1..Len(bs) |-> 0]
        ELSE LET z == CHOOSE i \in zeros : \A j \in zeros : j <= i
             IN  Tuple([i \in 1..Len(bs) |->
                           IF i < z THEN bs[i] ELSE IF i = z THEN 1 ELSE 0])

\* round to nearest, ties to even: acc holds MantissaBits digits of weight 2^e,
\* guard is the next digit and sticky tells whether anything nonzero follows it
RoundNearestEven(acc, e, guard, sticky) ==
    IF guard = 1 /\ (sticky \/ acc[Len(acc)] = 1)
    THEN LET up == Inc(acc)
         IN  IF Len(up) > MantissaBits
             THEN [bits |-> SubSeq(up, 1, MantissaBits), exp |-> e + 1]
             ELSE [bits |-> up, exp |-> e]
    ELSE [bits |-> acc, exp |-> e]

\* the double nearest to all * 2^e (+ a nonzero tail below it when tail holds),
\* for a digit sequence all that starts with 1 and has more than MantissaBits digits
RoundBits(all, e, tail) ==
    RoundNearestEven(SubSeq(all, 1, MantissaBits),
                     e + (Len(all) - MantissaBits),
                     all[MantissaBits + 1],
                     tail \/ \E i \in (MantissaBits + 2)..Len(all) : all[i] = 1)

RECURSIVE Rem(_, _, _)
\* long division by b: the remainder after j limbs of the fraction
Rem(r, b, j) ==
    IF j = 0 THEN r ELSE (Rem(r, b, j - 1) * LimbBase) % b

\* the double a / b of two integer-valued doubles, 0 <= a, 0 < b < 2^17, a / b >= 2^-24
Div(a, b) ==
    IF a = 0 THEN Zero
    ELSE LET int  == NatBits(a \div b)
             frac == LimbsToBits(Tuple([j \in 1..NumLimbs |->
                                     (Rem(a % b, b, j - 1) * LimbBase) \div b]))
             all  == StripZeros(int \o frac)
             tail == Rem(a % b, b, NumLimbs) # 0
         IN  RoundBits(all, -(NumLimbs * LimbBits), tail)

RECURSIVE Carry(_, _, _)
\* k * limbs, from the least significant limb: the carry out of limb j (counted from the right)
Carry(k, limbs, j) ==
    IF j = 0 THEN 0
    ELSE (k * limbs[Len(limbs) + 1 - j] + Carry(k, limbs, j - 1)) \div LimbBase

\* the double k * x for an integer-valued double 0 < k < 2^17
Mul(k, x) ==
    IF x = Zero THEN Zero
    ELSE LET pad   == [i \in 1..(NumLimbs * LimbBits - MantissaBits) |-> 0] \o x.bits
             limbs == Tuple([j \in 1..NumLimbs |->
                          BitsToNat(SubSeq(pad, (j - 1) * LimbBits + 1, j * LimbBits))])
             prod  == Tuple([j \in 1..NumLimbs |->
                          (k * limbs[j] + Carry(k, limbs, NumLimbs - j)) % LimbBase])
             all   == StripZeros(NatBits(Carry(k, limbs, NumLimbs)) \o LimbsToBits(prod))
         IN  IF Len(all) = MantissaBits THEN [bits |-> all, exp |-> x.exp]
             ELSE RoundBits(all, x.exp, FALSE)

\* x >= y on positive doubles
Geq(x, y) ==
    IF x.exp # y.exp THEN x.exp > y.exp
    ELSE LET diff == {i \in 1..MantissaBits : x.bits[i] # y.bits[i]}
         IN  IF diff = {} THEN TRUE
             ELSE x.bits[CHOOSE i \in diff : \A j \in diff : i <= j] = 1

\* Math.floor in the place of Math.round
MathRound_Floor(x) ==
    IF x = Zero THEN 0
    ELSE LET n == MantissaBits + x.exp
         IN  IF n <= 0 THEN 0
             ELSE IF n >= MantissaBits
                  THEN BitsToNat(x.bits) * (2 ^ x.exp)
                  ELSE BitsToNat(SubSeq(x.bits, 1, n))

\* Math.round: the integer nearest to x, halves go up
MathRound(x) ==
    IF x = Zero THEN 0
    ELSE LET n == MantissaBits + x.exp    \* number of integer digits
         IN  IF n < 0 THEN 0
             ELSE IF n = 0 THEN 1
             ELSE IF n >= MantissaBits
                  THEN BitsToNat(x.bits) * (2 ^ x.exp)
                  ELSE BitsToNat(SubSeq(x.bits, 1, n)) + x.bits[n + 1]

\* the literals 1.7 and 2.4
Lit_1_7 == Div(17, 10)

Lit_2_4 == Div(24, 10)

-----------------------------------------------------------------------------
(* Pure functions of the module *)

\* settings.forceTVMode ?? false
NullishFalse(v) == v = "true"

\* detectTVDevice with the lower ratio bound exclusive (aspectRatio > 1.7)
detectTVDevice_StrictRatio(force) ==
    IF force THEN TRUE
    ELSE IF PlatformIsTV THEN TRUE
    ELSE IF PlatformOS = "android"
         THEN LET width  == window.width
                  height == window.height
              IN  IF width > height /\ width >= TV_MIN_WIDTH /\ height >= TV_MIN_HEIGHT
                  THEN LET aspectRatio == Div(width, height)
                       IN  ~Geq(Lit_1_7, aspectRatio) /\ Geq(Lit_2_4, aspectRatio)
                  ELSE FALSE
    ELSE FALSE

\* detectTVDevice with the override consulted after the platform checks, on Android only
detectTVDevice_LateOverride(force) ==
    IF PlatformIsTV THEN TRUE
    ELSE IF PlatformOS = "android"
         THEN LET width  == window.width
                  height == window.height
              IN  IF force THEN TRUE
                  ELSE IF width > height /\ width >= TV_MIN_WIDTH /\ height >= TV_MIN_HEIGHT
                  THEN LET aspectRatio == Div(width, height)
                       IN  Geq(aspectRatio, Lit_1_7) /\ Geq(Lit_2_4, aspectRatio)
                  ELSE FALSE
    ELSE FALSE

detectTVDevice(force) ==
    IF force THEN TRUE
    ELSE IF PlatformIsTV THEN TRUE
    ELSE IF PlatformOS = "android"
         THEN LET width  == window.width
                  height == window.height
                  isLandscape   == width > height
                  isLargeScreen == width >= TV_MIN_WIDTH /\ height >= TV_MIN_HEIGHT
              IN  IF isLandscape /\ isLargeScreen
                  THEN LET aspectRatio == Div(width, height)
                       IN  Geq(aspectRatio, Lit_1_7) /\ Geq(Lit_2_4, aspectRatio)
                  ELSE FALSE
    ELSE FALSE

\* isAndroidTV without the upper ratio bound
isAndroidTV_NoUpperRatio ==
    IF PlatformIsTV THEN TRUE
    ELSE IF PlatformOS = "android"
         THEN LET width  == window.width
                  height == window.height
              IN  IF width >= TV_MIN_WIDTH /\ height >= TV_MIN_HEIGHT /\ width > height
                  THEN Geq(Div(width, height), Lit_1_7)
                  ELSE FALSE
    ELSE FALSE

isAndroidTV ==
    IF PlatformIsTV THEN TRUE
    ELSE IF PlatformOS = "android"
         THEN LET width  == window.width
                  height == window.height
              IN  IF width >= TV_MIN_WIDTH /\ height >= TV_MIN_HEIGHT /\ width > height
                  THEN LET aspectRatio == Div(width, height)
                       IN  Geq(aspectRatio, Lit_1_7) /\ Geq(Lit_2_4, aspectRatio)
                  ELSE FALSE
    ELSE FALSE

calculateTVDimensions ==
    LET width == window.width
        scale == Div(width, baseWidth)
    IN  [posterWidth      |-> MathRound(Mul(200, scale)),
         posterHeight     |-> MathRound(Mul(300, scale)),
         iconSize         |-> MathRound(Mul(32, scale)),
         fontSize         |-> [title   |-> MathRound(Mul(28, scale)),
                               body    |-> MathRound(Mul(20, scale)),
                               caption |-> MathRound(Mul(16, scale))],
         spacing          |-> [small  |-> MathRound(Mul(8, scale)),
                               medium |-> MathRound(Mul(16, scale)),
                               large  |-> MathRound(Mul(32, scale))],
         focusBorderWidth |-> MathRound(Mul(4, scale))]
-----------------------------------------------------------------------------
(* Direct calls of the pure functions.                                     *)

NoCall == [fn |-> "none", arg |-> FALSE, ret |-> FALSE]

\* a notification of the host without payload (hwEvent is null / undefined)
NoNotification == [present |-> FALSE, eventType |-> "", eventKeyAction |-> 0, tag |-> <<>>]

\* viewport samples around the thresholds 1280, 720 and the ratios 1.7, 2.4
DetectWidths ==
    {0, 720, 800, 1080, 1223, 1224, 1225, 1279, 1280, 1281, 1359, 1360, 1361,
     1727, 1728, 1729, 1919, 1920, 1921, 2560, 2592, 3440}

DetectHeights == {0, 600, 719, 720, 721, 800, 1080, 1081, 1440, 1920}

OperatingSystems == {"android", "ios", "web"}

\* the hook is not in use while the pure functions are called directly
HookUnused ==
    /\ mounted = FALSE
    /\ memoForce = "undefined"
    /\ isTVDevice = FALSE
    /\ tvDimensions = FALSE
    /\ tvEventHandlerRef = {}
    /\ sites = {}
    /\ rendered = << >>
    /\ effect = << >>
    /\ pending = FALSE
    /\ subs = {}
    /\ lastHw = NoNotification
    /\ invoked = {}
    /\ prev = << >>

InitDetect ==
    /\ PlatformIsTV \in BOOLEAN
    /\ PlatformOS \in OperatingSystems
    /\ window \in [width : DetectWidths, height : DetectHeights]
    /\ forceTVMode = "undefined"
    /\ call = NoCall
    /\ last = "Init"
    /\ HookUnused

CallDetect(force) ==
    /\ call' = [fn |-> "detectTVDevice", arg |-> force, ret |-> detectTVDevice(force)]
    /\ last' = "CallDetect"
    /\ UNCHANGED <<envVars, hookVars>>

CallQuick ==
    /\ call' = [fn |-> "isAndroidTV", arg |-> FALSE, ret |-> isAndroidTV]
    /\ last' = "CallQuick"
    /\ UNCHANGED <<envVars, hookVars>>

NextDetect ==
    \/ \E force \in BOOLEAN : CallDetect(force)
    \/ CallQuick

SpecDetect == InitDetect /\ [][NextDetect]_vars

InitMetrics ==
    /\ PlatformIsTV = FALSE
    /\ PlatformOS = "android"
    /\ window \in [width : 0..MaxWidth, height : {1080}]
    /\ forceTVMode = "undefined"
    /\ call = NoCall
    /\ last = "Init"
    /\ HookUnused

CallCalculate ==
    /\ call' = [fn |-> "calculateTVDimensions", arg |-> FALSE, ret |-> calculateTVDimensions]
    /\ last' = "CallCalculate"
    /\ UNCHANGED <<envVars, hookVars>>

NextMetrics == CallCalculate

SpecMetrics == InitMetrics /\ [][NextMetrics]_vars

-----------------------------------------------------------------------------
(* useTVDevice() in one mounted component, and the host's TVEventHandler.   *)

Handlers == 1..NumHandlers

ForceValues == {"true", "false", "undefined"}

\* Platform.isTV and Platform.OS of the devices the component runs on
\* (Platform.OS is not read when Platform.isTV holds)
Platforms == {<<TRUE, "android">>, <<FALSE, "android">>, <<FALSE, "ios">>}

\* viewports the window takes while the component is mounted
Viewports ==
    {[width |-> 1920, height |-> 1080],
     [width |-> 1080, height |-> 1920],
     [width |-> 1280, height |-> 800]}

\* eventType strings the host sends: remote keys and focus changes
EventTypes == {"up", "select", "focus"}

\* HWEvent: eventType, eventKeyAction, optional tag (<<>> when absent)
Notifications ==
    {NoNotification} \cup
    [present : {TRUE}, eventType : EventTypes,
     eventKeyAction : 0..MaxKeyAction, tag : {<<>>, <<1>>}]

NoEffect == [ran |-> FALSE, handler |-> 0, isTV |-> FALSE, cleanup |-> FALSE]

\* call sites in the order the component calls them
SiteOrder(ss) == IF ss = {1} THEN <<1>> ELSE IF ss = {2} THEN <<2>> ELSE <<1, 2>>

\* useMemo(() => detectTVDevice(settings.forceTVMode ?? false), [settings.forceTVMode])
useMemoIsTVDevice ==
    IF forceTVMode # memoForce
    THEN detectTVDevice(NullishFalse(forceTVMode))
    ELSE isTVDevice

\* the effect with the dependency list [handler]
DepsChanged_HandlerOnly(e, handler, isTV) ==
    \/ ~e.ran
    \/ e.handler # handler

\* useEffect(..., [handler, isTVDevice]): do the dependencies differ from the last run
DepsChanged(e, handler, isTV) ==
    \/ ~e.ran
    \/ e.handler # handler
    \/ e.isTV # isTV

\* new TVEventHandler(): an instance no live subscription uses
NewId(ss) ==
    CHOOSE i \in 1..(Cardinality(ss) + 1) : \A sub \in ss : sub.id # i

\* the effect body: st is [ref, subs]
Subscribe(st, handler, isTV) ==
    IF ~isTV THEN st
    ELSE LET tvEventHandler == NewId(st.subs)
         IN  [ref  |-> {tvEventHandler},
              subs |-> st.subs \cup {[id |-> tvEventHandler, handler |-> handler]}]

\* a cleanup that forgets the instance without disabling it
Cleanup_NoDisable(st) ==
    [ref |-> {}, subs |-> st.subs]

\* an effect that returns no cleanup
Cleanup_Missing(st) == st

\* the cleanup the effect returns
Cleanup(st) ==
    IF st.ref # {}
    THEN [ref |-> {}, subs |-> {sub \in st.subs : sub.id \notin st.ref}]
    ELSE st

RECURSIVE RunCleanups(_, _, _)
\* the cleanups of the call sites in todo, in order
RunCleanups(st, order, todo) ==
    IF order = <<>> THEN st
    ELSE RunCleanups(IF Head(order) \in todo THEN Cleanup(st) ELSE st, Tail(order), todo)

RECURSIVE RunEffects(_, _, _, _, _)
\* the effect bodies of the call sites in todo, in order
RunEffects(st, order, todo, hs, isTV) ==
    IF order = <<>> THEN st
    ELSE RunEffects(IF Head(order) \in todo
                    THEN Subscribe(st, hs[Head(order)], isTV) ELSE st,
                    Tail(order), todo, hs, isTV)

\* the callback without the key-down filter
Callback_AllPhases(hwEvent) ==
    IF ~hwEvent.present THEN {}
    ELSE {[eventType      |-> hwEvent.eventType,
           eventKeyAction |-> IF hwEvent.eventKeyAction = 0 THEN "down"
                              ELSE IF hwEvent.eventKeyAction = 1 THEN "up"
                              ELSE "long-press",
           tag            |-> hwEvent.tag]}

\* the callback with a two-way phase split: every nonzero code is a release
Callback_TwoWayPhase(hwEvent) ==
    IF ~hwEvent.present THEN {}
    ELSE IF hwEvent.eventKeyAction = 0
         THEN {[eventType |-> hwEvent.eventType, eventKeyAction |-> "down",
                tag |-> hwEvent.tag]}
         ELSE {}

\* the callback without the test of hwEvent: the missing payload is translated
\* like any other notification
Callback_NoPayloadCheck(hwEvent) ==
    LET event == [eventType      |-> hwEvent.eventType,
                  eventKeyAction |-> IF hwEvent.eventKeyAction = 0 THEN "down"
                                     ELSE IF hwEvent.eventKeyAction = 1 THEN "up"
                                     ELSE "long-press",
                  tag            |-> hwEvent.tag]
    IN  IF event.eventKeyAction = "down" \/ event.eventKeyAction = "long-press"
        THEN {event}
        ELSE {}

\* the callback given to tvEventHandler.enable: the invocations of handler it makes
Callback(hwEvent) ==
    IF ~hwEvent.present THEN {}
    ELSE LET event == [eventType      |-> hwEvent.eventType,
                       eventKeyAction |-> IF hwEvent.eventKeyAction = 0 THEN "down"
                                          ELSE IF hwEvent.eventKeyAction = 1 THEN "up"
                                          ELSE "long-press",
                       tag            |-> hwEvent.tag]
         IN  IF event.eventKeyAction = "down" \/ event.eventKeyAction = "long-press"
             THEN {event}
             ELSE {}

ClearLog ==
    /\ lastHw' = NoNotification
    /\ invoked' = {}

HookInit(ss) ==
    /\ call = NoCall
    /\ mounted = TRUE
    /\ memoForce = forceTVMode
    /\ isTVDevice = detectTVDevice(NullishFalse(forceTVMode))
    /\ tvDimensions = calculateTVDimensions
    /\ tvEventHandlerRef = {}
    /\ sites = ss
    /\ rendered \in [ss -> Handlers]
    /\ effect = [s \in ss |-> NoEffect]
    /\ pending = TRUE
    /\ subs = {}
    /\ lastHw = NoNotification
    /\ invoked = {}
    /\ last = "Mount"
    /\ prev = [s \in ss |-> {}]

\* the first render of a component with one useRemoteHandler call
Init ==
    /\ \E p \in Platforms : PlatformIsTV = p[1] /\ PlatformOS = p[2]
    /\ window \in Viewports
    /\ forceTVMode \in ForceValues
    /\ HookInit({1})

\* a re-render of the component; hs are the handlers it passes to useRemoteHandler
Render(hs) ==
    /\ mounted /\ ~pending
    /\ isTVDevice' = useMemoIsTVDevice
    /\ memoForce' = forceTVMode
    /\ rendered' = hs
    /\ pending' = \E s \in sites : DepsChanged(effect[s], hs[s], isTVDevice')
    /\ ClearLog
    /\ last' = "Render"
    /\ UNCHANGED <<envVars, call, mounted, tvDimensions, tvEventHandlerRef, sites,
                   effect, subs, prev>>

\* the passive effects of the committed render: cleanups of the changed effects,
\* then their bodies
FlushEffects ==
    /\ mounted /\ pending
    /\ LET changed == {s \in sites : DepsChanged(effect[s], rendered[s], isTVDevice)}
           torn    == {s \in changed : effect[s].cleanup}
           st0     == [ref |-> tvEventHandlerRef, subs |-> subs]
           st1     == RunCleanups(st0, SiteOrder(sites), torn)
           st2     == RunEffects(st1, SiteOrder(sites), changed, rendered, isTVDevice)
       IN  /\ tvEventHandlerRef' = st2.ref
           /\ subs' = st2.subs
           /\ effect' = [s \in sites |->
                            IF s \in changed
                            THEN [ran |-> TRUE, handler |-> rendered[s],
                                  isTV |-> isTVDevice, cleanup |-> isTVDevice]
                            ELSE effect[s]]
           /\ prev' = [s \in sites |->
                          IF s \in torn THEN {effect[s].handler} ELSE prev[s]]
    /\ pending' = FALSE
    /\ ClearLog
    /\ last' = "FlushEffects"
    /\ UNCHANGED <<envVars, call, mounted, memoForce, isTVDevice, tvDimensions, sites,
                   rendered>>

\* the component unmounts: every effect's cleanup runs
Unmount ==
    /\ mounted /\ ~pending
    /\ LET torn == {s \in sites : effect[s].cleanup}
           st1  == RunCleanups([ref |-> tvEventHandlerRef, subs |-> subs],
                               SiteOrder(sites), torn)
       IN  /\ tvEventHandlerRef' = st1.ref
           /\ subs' = st1.subs
           /\ prev' = [s \in sites |->
                          IF s \in torn THEN {effect[s].handler} ELSE prev[s]]
    /\ effect' = [s \in sites |-> NoEffect]
    /\ mounted' = FALSE
    /\ ClearLog
    /\ last' = "Unmount"
    /\ UNCHANGED <<envVars, call, memoForce, isTVDevice, tvDimensions, sites, rendered,
                   pending>>

\* the host emits a notification to every enabled TVEventHandler
HostEmit(hwEvent) ==
    /\ lastHw' = hwEvent
    /\ invoked' = {[id |-> sub.id, handler |-> sub.handler, event |-> ev] :
                      <<sub, ev>> \in subs \X Callback(hwEvent)}
    /\ last' = "HostEmit"
    /\ UNCHANGED <<envVars, call, mounted, memoForce, isTVDevice, tvDimensions,
                   tvEventHandlerRef, sites, rendered, effect, pending, subs, prev>>

\* rotation / resize: Dimensions.get('window') returns a new value
DimensionsChange(w) ==
    /\ w # window
    /\ window' = w
    /\ ClearLog
    /\ last' = "DimensionsChange"
    /\ UNCHANGED <<PlatformIsTV, PlatformOS, forceTVMode, call, mounted, memoForce,
                   isTVDevice, tvDimensions, tvEventHandlerRef, sites, rendered, effect,
                   pending, subs, prev>>

\* the user changes the "force TV mode" setting
SetForceTVMode(v) ==
    /\ v # forceTVMode
    /\ forceTVMode' = v
    /\ ClearLog
    /\ last' = "SetForceTVMode"
    /\ UNCHANGED <<PlatformIsTV, PlatformOS, window, call, mounted, memoForce,
                   isTVDevice, tvDimensions, tvEventHandlerRef, sites, rendered, effect,
                   pending, subs, prev>>

Next ==
    \/ \E hs \in [sites -> Handlers] : Render(hs)
    \/ FlushEffects
    \/ Unmount
    \/ \E hwEvent \in Notifications : HostEmit(hwEvent)
    \/ \E w \in Viewports : DimensionsChange(w)
    \/ \E v \in ForceValues : SetForceTVMode(v)

Spec == Init /\ [][Next]_vars

-----------------------------------------------------------------------------
(* Properties *)

\* the call sites whose effect holds a subscription, and their handlers
Registered == {s \in sites : effect[s].ran /\ effect[s].cleanup}

\* the last notification is one the callback forwards by its key action
Forwardable == lastHw.present /\ lastHw.eventKeyAction # 1

\* the Android dimension rule in exact integer arithmetic
AndroidRule(w, h) ==
    /\ w > h
    /\ w >= 1280
    /\ h >= 720
    /\ 17 * h <= 10 * w
    /\ 10 * w <= 24 * h

\* C1: with override false and Platform.isTV false on Android, detectTVDevice
\* returns true exactly when width > height, width >= 1280, height >= 720 and
\* 17*height <= 10*width <= 24*height; 1920x1080 is TV, 1280x800 is not, and
\* no viewport with width <= height is
C1_AndroidViewportRule ==
    (call.fn = "detectTVDevice" /\ ~call.arg /\ ~PlatformIsTV /\ PlatformOS = "android")
    => /\ call.ret = AndroidRule(window.width, window.height)
       /\ (window.width = 1920 /\ window.height = 1080 => call.ret)
       /\ (window.width = 1280 /\ window.height = 800 => ~call.ret)
       /\ (window.width <= window.height => ~call.ret)

C1_Witness ==
    /\ call.fn = "detectTVDevice" /\ ~call.arg
    /\ ~PlatformIsTV /\ PlatformOS = "android"
    /\ window = [width |-> 1360, height |-> 800]
    /\ call.ret

\* C2: detectTVDevice(true) returns true whatever Platform.isTV, Platform.OS
\* and the viewport are
C2_OverrideShortCircuits ==
    (call.fn = "detectTVDevice" /\ call.arg) => call.ret

C2_Witness ==
    /\ call.fn = "detectTVDevice" /\ call.arg
    /\ ~PlatformIsTV /\ PlatformOS = "ios"
    /\ window.width < window.height
    /\ call.ret

\* C3: isAndroidTV() returns what detectTVDevice(false) returns, for every
\* Platform.isTV, Platform.OS and viewport
C3_QuickAgreesWithDetector ==
    call.fn = "isAndroidTV" => call.ret = detectTVDevice(FALSE)

C3_Witness ==
    /\ call.fn = "isAndroidTV"
    /\ ~PlatformIsTV /\ PlatformOS = "android"
    /\ window = [width |-> 1729, height |-> 720]
    /\ ~call.ret

\* C4: a notification with eventKeyAction = 1 invokes no handler; while a
\* handler is registered, a notification with a payload and any other
\* eventKeyAction invokes the registered handler exactly once
C4_ReleasedSwallowedOthersOnce ==
    last = "HostEmit"
    => /\ (lastHw.present /\ lastHw.eventKeyAction = 1 => invoked = {})
       /\ (Forwardable /\ Registered # {}
           => /\ Cardinality(invoked) = 1
              /\ \A s \in Registered :
                    Cardinality({i \in invoked : i.handler = effect[s].handler}) = 1)

C4_Witness ==
    /\ last = "HostEmit"
    /\ Registered # {}
    /\ lastHw.present /\ lastHw.eventKeyAction = 2
    /\ Cardinality(invoked) = 1

\* C5: once a second handler has been registered in the place of an earlier
\* one, exactly one host subscription is enabled, it belongs to the newest
\* handler, and every notification is delivered to the newest handler only
C5_ReplacementLeavesOneSubscription ==
    (mounted /\ ~pending /\ Registered # {} /\ \E s \in sites : prev[s] # {})
    => /\ Cardinality(subs) = 1
       /\ \A sub \in subs : \A s \in sites : sub.handler = rendered[s]
       /\ (last = "HostEmit" => \A i \in invoked : \A s \in sites : i.handler = rendered[s])

C5_Witness ==
    /\ mounted /\ ~pending /\ Registered # {}
    /\ \E s \in sites : prev[s] # {} /\ rendered[s] \notin prev[s]
    /\ last = "HostEmit"
    /\ invoked # {}

\* C6: after the component with the only registered handler is torn down, no
\* host subscription is enabled and no notification invokes a handler
C6_TeardownReleasesSubscription ==
    ~mounted
    => /\ subs = {}
       /\ tvEventHandlerRef = {}
       /\ (last = "HostEmit" => invoked = {})

C6_Witness ==
    /\ ~mounted
    /\ isTVDevice
    /\ \E s \in sites : prev[s] # {}
    /\ last = "HostEmit"
    /\ Forwardable

\* C7: a notification whose eventType is none of the ten remote keys is never
\* forwarded to the registered handler
C7_UnknownEventTypeNotForwarded ==
    (last = "HostEmit" /\ lastHw.present /\ lastHw.eventType \notin TV_REMOTE_KEYS)
    => invoked = {}

\* C8: after every render, isTVDevice equals detectTVDevice of the current
\* override flag, platform flags and viewport
C8_IsTVDeviceFollowsViewport ==
    (mounted /\ last = "Render")
    => isTVDevice = detectTVDevice(NullishFalse(forceTVMode))

\* the metrics of a calculateTVDimensions result with their base values
Metrics(r) ==
    <<<<200, r.posterWidth>>, <<300, r.posterHeight>>, <<32, r.iconSize>>,
      <<28, r.fontSize.title>>, <<20, r.fontSize.body>>, <<16, r.fontSize.caption>>,
      <<8, r.spacing.small>>, <<16, r.spacing.medium>>, <<32, r.spacing.large>>,
      <<4, r.focusBorderWidth>>>>

\* round(base * w / 1920), halves up, in exact integer arithmetic
ExactRound(base, w) == (2 * base * w + 1920) \div 3840

\* base * w / 1920 lies exactly halfway between two integers
ExactHalf(base, w) == (2 * base * w) % 3840 = 1920

\* C9 as stated: every metric equals round(base * w / 1920), halves up
C9_MetricsExactlyRounded ==
    call.fn = "calculateTVDimensions"
    => \A i \in 1..10 :
          Metrics(call.ret)[i][2] = ExactRound(Metrics(call.ret)[i][1], window.width)

\* C9: every metric is Math.round of the double product base * (w / 1920):
\* it equals round(base * w / 1920), halves up, unless base * w / 1920 is an
\* exact half, where it is that value or one less; w = 1920 gives every base
\* value and w = 960 half of it
C9_MetricsRoundedDoubleProduct ==
    call.fn = "calculateTVDimensions"
    => \A i \in 1..10 :
          LET base == Metrics(call.ret)[i][1]
              v    == Metrics(call.ret)[i][2]
              w    == window.width
          IN  /\ ~ExactHalf(base, w) => v = ExactRound(base, w)
              /\ ExactHalf(base, w) => v \in {ExactRound(base, w), ExactRound(base, w) - 1}
              /\ w = 1920 => v = base
              /\ w = 960 => 2 * v = base

C9_Witness ==
    /\ call.fn = "calculateTVDimensions"
    /\ window.width = 960
    /\ call.ret.posterWidth = 100
    /\ call.ret.posterHeight = 150
    /\ call.ret.iconSize = 16

\* C10: once a change of isTVDevice from true to false has been processed, no
\* host subscription is enabled and no notification invokes a handler
C10_ReclassificationTearsDown ==
    (mounted /\ ~pending /\ ~isTVDevice)
    => /\ subs = {}
       /\ tvEventHandlerRef = {}
       /\ (last = "HostEmit" => invoked = {})

C10_Witness ==
    /\ mounted /\ ~pending /\ ~isTVDevice
    /\ \E s \in sites : prev[s] # {}
    /\ last = "HostEmit"
    /\ Forwardable

\* C11: after every render, tvDimensions equals calculateTVDimensions of the
\* current viewport width
C11_TvDimensionsFollowViewport ==
    (mounted /\ last = "Render") => tvDimensions = calculateTVDimensions

\* C12: in every reachable state, if the device is not classified as TV or no
\* handler is registered (the component is not mounted), no host subscription
\* is enabled
C12_InactiveUnlessTVAndRegistered ==
    (~mounted \/ ~isTVDevice) => subs = {}

\* C14: no notification is delivered to a handler after a render has replaced
\* it, whatever the interleaving of notifications, renders and effect flushes
C14_NoDeliveryToReplacedHandler ==
    (mounted /\ last = "HostEmit")
    => \A i \in invoked : \E s \in sites : i.handler = rendered[s]

\* the phase the code gives to an eventKeyAction code
PhaseOf(code) == IF code = 0 THEN "down" ELSE IF code = 1 THEN "up" ELSE "long-press"

\* C15: the phase of an event is decided by eventKeyAction alone: 0 is 'down',
\* 1 is 'up' (and so is swallowed), every other code is 'long-press'; the
\* forwarded event carries that phase with the host's eventType and tag
C15_ThreeWayPhaseSplit ==
    (last = "HostEmit" /\ lastHw.present /\ Registered # {})
    => /\ (PhaseOf(lastHw.eventKeyAction) = "up") = (invoked = {})
       /\ \A i \in invoked :
             /\ i.event.eventKeyAction = PhaseOf(lastHw.eventKeyAction)
             /\ i.event.eventType = lastHw.eventType
             /\ i.event.tag = lastHw.tag

C15_Witness ==
    /\ last = "HostEmit" /\ Registered # {}
    /\ lastHw.present /\ lastHw.eventKeyAction = 2 /\ lastHw.tag = <<1>>
    /\ \E i \in invoked : i.event.eventKeyAction = "long-press" /\ i.event.tag = <<1>>

\* C16: a notification without payload invokes no handler and changes nothing
\* of the subscription; a notification that follows it is delivered as usual
C16_EmptyNotificationDropped ==
    [][/\ (last' = "HostEmit" /\ ~lastHw'.present)
          => /\ invoked' = {}
             /\ UNCHANGED <<subs, tvEventHandlerRef, effect, rendered, pending, mounted>>
       /\ (/\ last = "HostEmit" /\ ~lastHw.present /\ Registered # {}
           /\ last' = "HostEmit" /\ lastHw'.present /\ lastHw'.eventKeyAction # 1)
          => Cardinality(invoked') = 1]_vars

C16_Witness ==
    /\ last = "HostEmit"
    /\ ~lastHw.present
    /\ Registered # {}
    /\ subs # {}
    /\ invoked = {}

-----------------------------------------------------------------------------
(* A component that calls useRemoteHandler twice on one useTVDevice result: *)
(* both effects share tvEventHandlerRef.                                    *)

\* enabled TVEventHandler instances beyond which no further effect is flushed
MaxLive == 2

InitShared ==
    /\ \E p \in Platforms : PlatformIsTV = p[1] /\ PlatformOS = p[2]
    /\ window \in Viewports
    /\ forceTVMode \in ForceValues
    /\ HookInit({1, 2})

FlushEffectsShared ==
    /\ Cardinality(subs) < MaxLive
    /\ FlushEffects

NextShared ==
    \/ \E hs \in [sites -> Handlers] : Render(hs)
    \/ FlushEffectsShared
    \/ Unmount
    \/ \E hwEvent \in Notifications : HostEmit(hwEvent)
    \/ \E w \in Viewports : DimensionsChange(w)
    \/ \E v \in ForceValues : SetForceTVMode(v)

SpecShared == InitShared /\ [][NextShared]_vars

\* C13: once every registration made through one useTVDevice result has been
\* torn down (handler replacement, reclassification or unmount), no host
\* subscription remains enabled
C13_NoSubscriptionLeaked ==
    (~pending /\ Registered = {}) => subs = {}

====
